---- MODULE Spec2Model ----
(***************************************************************************)
(* State-machine model of the pothole mapping dashboard (App.jsx): the     *)
(* React state of PotholeMappingPlatform, its event handlers, the boundary *)
(* fetch, the geocode fallback of handleSearch and the memoised filter.    *)
(*                                                                         *)
(* Text is a sequence of one-character tokens.  Indices of boundaries are  *)
(* 0-based as in the source; sequences are 1-based, so feature idx is      *)
(* features[idx + 1].  Time is counted in hours since 1 January 00:00      *)
(* local time of the year the page was opened in.                          *)
(***************************************************************************)
EXTENDS Integers, Sequences, FiniteSets, TLC

VARIABLES
  generator,                \* the locals of buildInitialPotholes while it runs
  potholes,                 \* useState(buildInitialPotholes)
  fetchState,               \* the fetch of useNeighborhoods: pending/resolved/rejected
  neighborhoodsFC,          \* fc of useNeighborhoods (NoFC models null)
  map,                      \* useState(null), set by whenCreated
  view,                     \* last viewport command given to the map
  searchQuery,              \* useState('')
  selectedNeighborhoodIds,  \* useState(new Set())
  selectedFilters,          \* applied criteria
  inputs,                   \* draft criteria
  pending,                  \* geocode requests in flight, in issue order
  now,                      \* the wall clock read by new Date()
  filteredPotholes,         \* value held by useMemo
  evaluatedAt,              \* clock value read when the memo was last computed
  lastOp,                   \* the handler that ran last, with its arguments
  overtaken                 \* history: per request in flight, whether the boundary
                            \* now selected was selected after the request was issued

vars == <<generator, potholes, fetchState, neighborhoodsFC, map, view, searchQuery,
          selectedNeighborhoodIds, selectedFilters, inputs, pending, now,
          filteredPotholes, evaluatedAt, lastOp, overtaken>>

(***************************************************************************)
(* Bounds of the model.                                                    *)
(***************************************************************************)
MaxPending == 2      \* geocode requests in flight at once
MaxTicks == 1        \* clock advances explored
MaxRecords == 3      \* records per set in the pure-filter specification
PositionSteps == 8   \* positions per axis that rand() is resolved to

(***************************************************************************)
(* Program constants.                                                      *)
(***************************************************************************)
STATUSES == <<"pending", "inProgress", "repaired">>
SEVERITIES == <<"critical", "high", "medium", "low">>
DateRangeOptions == {"all", "today", "last7", "last30", "thisYear"}
FlyToZoom == 13
InitialZoom == 12
InitialLat == 43
InitialLng == -79
HoursPerDay == 24
HoursPerYear == 8760
Last7Days == 7
Last30Days == 30

Range(s) == {s[i] : i \in DOMAIN s}

(***************************************************************************)
(* Text.                                                                   *)
(***************************************************************************)
Whitespace == {" "}
CombiningMarks == {"acute"}                \* U+0300..U+036F
Digits == {"0", "1", "2", "3", "4", "5", "6", "7", "8", "9"}

DigitVal(c) ==
  CASE c = "0" -> 0 [] c = "1" -> 1 [] c = "2" -> 2 [] c = "3" -> 3
    [] c = "4" -> 4 [] c = "5" -> 5 [] c = "6" -> 6 [] c = "7" -> 7
    [] c = "8" -> 8 [] c = "9" -> 9

\* String.prototype.toLowerCase, per character
LowerChar(c) ==
  CASE c = "A" -> "a"
    [] c = "B" -> "b"
    [] c = "E_acute" -> "e_acute"
    [] OTHER -> c

ToLowerCase(s) == [i \in DOMAIN s |-> LowerChar(s[i])]

\* NFKD decomposition of one character
Decompose(c) ==
  CASE c = "e_acute" -> <<"e", "acute">>
    [] c = "E_acute" -> <<"E", "acute">>
    [] OTHER -> <<c>>

RECURSIVE NFKD(_)
NFKD(s) == IF s = <<>> THEN <<>> ELSE Decompose(Head(s)) \o NFKD(Tail(s))

IsMark(c) == c \in CombiningMarks
StripMarks(s) == SelectSeq(s, LAMBDA c : ~IsMark(c))

RECURSIVE TrimStart(_)
TrimStart(s) ==
  IF s # <<>> /\ Head(s) \in Whitespace THEN TrimStart(Tail(s)) ELSE s

RECURSIVE TrimEnd(_)
TrimEnd(s) ==
  IF s # <<>> /\ s[Len(s)] \in Whitespace
    THEN TrimEnd(SubSeq(s, 1, Len(s) - 1))
    ELSE s

Trim(s) == TrimEnd(TrimStart(s))

normalize(str) == Trim(StripMarks(NFKD(ToLowerCase(str))))

\* String.prototype.includes
Includes(s, q) ==
  \E i \in 0..(Len(s) - Len(q)) : SubSeq(s, i + 1, i + Len(q)) = q

(***************************************************************************)
(* Numbers read from text.  A number is [nan, val]; NaN compares false.    *)
(***************************************************************************)
NaN == [nan |-> TRUE, val |-> 0]
Num(n) == [nan |-> FALSE, val |-> n]

RECURSIVE DigitsValue(_, _)
DigitsValue(s, acc) ==
  IF s = <<>> THEN acc ELSE DigitsValue(Tail(s), 10 * acc + DigitVal(Head(s)))

RECURSIVE DigitPrefix(_)
DigitPrefix(s) ==
  IF s # <<>> /\ Head(s) \in Digits THEN <<Head(s)>> \o DigitPrefix(Tail(s)) ELSE <<>>

Signed(s) == s # <<>> /\ Head(s) \in {"-", "+"}
Unsigned(s) == IF Signed(s) THEN Tail(s) ELSE s
SignOf(s) == IF s # <<>> /\ Head(s) = "-" THEN -1 ELSE 1

\* Number(text): whitespace is trimmed, empty text is 0, a whole numeric
\* literal is its value, anything else is NaN
Number(s) ==
  LET t == Trim(s)
      u == Unsigned(t)
  IN  IF t = <<>> THEN Num(0)
      ELSE IF u # <<>> /\ DigitPrefix(u) = u THEN Num(SignOf(t) * DigitsValue(u, 0))
      ELSE NaN

\* parseFloat(text): leading whitespace is skipped and the longest numeric
\* prefix is read; no numeric prefix is NaN
ParseFloat(s) ==
  LET t == TrimStart(s)
      d == DigitPrefix(Unsigned(t))
  IN  IF d = <<>> THEN NaN ELSE Num(SignOf(t) * DigitsValue(d, 0))

LessThan(a, n) == ~n.nan /\ a < n.val
GreaterThan(a, n) == ~n.nan /\ a > n.val

(***************************************************************************)
(* Geometry.  A point is <<lng, lat>> on a small grid and a polygon is the *)
(* set of grid points it contains (turf.booleanPointInPolygon).            *)
(***************************************************************************)
point(lng, lat) == <<lng, lat>>
booleanPointInPolygon(pt, f) == pt \in f.cells

\* L.geoJSON(feature).getBounds(): <<west, south, east, north>>; the bounds
\* of an empty geometry are not valid
Min(S) == CHOOSE x \in S : \A y \in S : x <= y
Max(S) == CHOOSE x \in S : \A y \in S : x >= y
NoBounds == <<0, 0, 0, 0>>
boundsIsValid(f) == f.cells # {}
getBounds(f) ==
  IF f.cells = {} THEN NoBounds
  ELSE <<Min({c[1] : c \in f.cells}), Min({c[2] : c \in f.cells}),
         Max({c[1] : c \in f.cells}), Max({c[2] : c \in f.cells})>>

(***************************************************************************)
(* Boundary collections.  A feature is [id, properties, cells]; id <<>>    *)
(* is an absent id.  NoFC is the null collection.                          *)
(***************************************************************************)
NoFC == [type |-> "null", features |-> <<>>, cells |-> {}]
FeatureCollection(fs) == [type |-> "FeatureCollection", features |-> fs, cells |-> {}]
HasFC(fc) == fc # NoFC

TorontoFC ==
  FeatureCollection(<<
    [id |-> <<"0">>, properties |-> [name |-> <<"A", "b">>],
     cells |-> {<<0, 0>>, <<0, 1>>}],
    [id |-> <<"1">>, properties |-> [name |-> <<>>, AREA_NAME |-> <<"A">>],
     cells |-> {<<1, 0>>}],
    [id |-> <<"2">>, properties |-> [HOOD |-> <<>>],
     cells |-> {<<0, 1>>, <<2, 2>>}] >>)

TwinFC ==
  FeatureCollection(<<
    [id |-> <<>>, properties |-> [WARD |-> <<"a", " ">>, ward |-> <<" ", "A">>],
     cells |-> {}],
    [id |-> <<"7">>, properties |-> [NAME |-> <<"a">>],
     cells |-> {<<1, 0>>, <<5, 5>>}] >>)

EmptyFC == FeatureCollection(<<>>)

FCPool == {TorontoFC, TwinFC, EmptyFC}

NameKeys == <<"name", "Name", "NAME", "AREA_NAME", "AREA", "NEIGHBORHOOD",
              "NEIGHBOURHOOD", "HOOD", "NBRHD", "ward", "WARD">>

Prop(props, k) == IF k \in DOMAIN props THEN props[k] ELSE <<>>

\* for (const k of keys) if (props[k]) return String(props[k]);
\* return `Area ${f.id ?? ''}`.trim();
RECURSIVE FirstNamed(_, _, _)
FirstNamed(f, keys, i) ==
  IF i > Len(keys) THEN Trim(<<"A", "r", "e", "a", " ">> \o f.id)
  ELSE IF Prop(f.properties, keys[i]) # <<>> THEN Prop(f.properties, keys[i])
  ELSE FirstNamed(f, keys, i + 1)

featureName(f) == FirstNamed(f, NameKeys, 1)

\* useMemo over neighborhoodsFC: [] when there is no collection or no feature
neighborhoodIndexOf(fc) ==
  IF ~HasFC(fc) \/ Len(fc.features) = 0 THEN <<>>
  ELSE [i \in 1..Len(fc.features) |->
          [idx |-> i - 1, name |-> normalize(featureName(fc.features[i]))]]

neighborhoodIndex == neighborhoodIndexOf(neighborhoodsFC)

\* neighborhoodIndex.find((n) => n.name === q): position of the first such
\* entry from position i on, 0 if there is none
RECURSIVE FindExact(_, _, _)
FindExact(index, q, i) ==
  IF i > Len(index) THEN 0
  ELSE IF index[i].name = q THEN i
  ELSE FindExact(index, q, i + 1)

\* neighborhoodIndex.find((n) => n.name.includes(q))
RECURSIVE FindIncluding(_, _, _)
FindIncluding(index, q, i) ==
  IF i > Len(index) THEN 0
  ELSE IF Includes(index[i].name, q) THEN i
  ELSE FindIncluding(index, q, i + 1)

\* mutant: records outside every boundary are kept
pointOnAnyPolygonOff(lat, lng, fc) == TRUE

\* mutant: without a collection no point is on a polygon
pointOnAnyPolygonStrict(lat, lng, fc) ==
  /\ HasFC(fc)
  /\ \E i \in 1..Len(fc.features) :
       booleanPointInPolygon(point(lng, lat), fc.features[i])

pointOnAnyPolygon(lat, lng, fc) ==
  IF ~HasFC(fc) THEN TRUE
  ELSE IF fc.type = "FeatureCollection"
    THEN \E i \in 1..Len(fc.features) :
           booleanPointInPolygon(point(lng, lat), fc.features[i])
    ELSE booleanPointInPolygon(point(lng, lat), fc)

(***************************************************************************)
(* Dates.                                                                  *)
(***************************************************************************)
startOfToday(clock) == clock - (clock % HoursPerDay)
startOfYear(clock) == clock - (clock % HoursPerYear)

dateInRange(date, rangeKey, clock) ==
  CASE rangeKey = "all" -> TRUE
    [] rangeKey = "today" -> date >= startOfToday(clock)
    [] rangeKey = "last7" -> date >= clock - Last7Days * HoursPerDay
    [] rangeKey = "last30" -> date >= clock - Last30Days * HoursPerDay
    [] rangeKey = "thisYear" -> date >= startOfYear(clock)
    [] OTHER -> TRUE

(***************************************************************************)
(* The filter of the useMemo callback.                                     *)
(***************************************************************************)
InArray(a, x) == \E i \in 1..Len(a) : a[i] = x

HasActiveNeighborhoods(fc, sel) == HasFC(fc) /\ Cardinality(sel) > 0

activeNeighborhoods(fc, sel) ==
  SelectSeq([i \in 1..Len(fc.features) |-> [idx |-> i - 1, f |-> fc.features[i]]],
            LAMBDA e : e.idx \in sel)

\* mutant: a record whose size equals the minimum is dropped
KeepPotholeStrictMin(p, filters, fc, sel, clock) ==
  /\ pointOnAnyPolygon(p.lat, p.lng, fc)
  /\ HasActiveNeighborhoods(fc, sel) =>
       \E i \in 1..Len(activeNeighborhoods(fc, sel)) :
          booleanPointInPolygon(point(p.lng, p.lat), activeNeighborhoods(fc, sel)[i].f)
  /\ dateInRange(p.detected, filters.dateRange, clock)
  /\ ~(Len(filters.severities) > 0 /\ ~InArray(filters.severities, p.severity))
  /\ ~(Len(filters.statuses) > 0 /\ ~InArray(filters.statuses, p.status))
  /\ ~(filters.sizeMin # <<>> /\ ~GreaterThan(p.size, Number(filters.sizeMin)))
  /\ ~(filters.sizeMax # <<>> /\ GreaterThan(p.size, Number(filters.sizeMax)))

KeepPothole(p, filters, fc, sel, clock) ==
  /\ pointOnAnyPolygon(p.lat, p.lng, fc)
  /\ HasActiveNeighborhoods(fc, sel) =>
       \E i \in 1..Len(activeNeighborhoods(fc, sel)) :
          booleanPointInPolygon(point(p.lng, p.lat), activeNeighborhoods(fc, sel)[i].f)
  /\ dateInRange(p.detected, filters.dateRange, clock)
  /\ ~(Len(filters.severities) > 0 /\ ~InArray(filters.severities, p.severity))
  /\ ~(Len(filters.statuses) > 0 /\ ~InArray(filters.statuses, p.status))
  /\ ~(filters.sizeMin # <<>> /\ LessThan(p.size, Number(filters.sizeMin)))
  /\ ~(filters.sizeMax # <<>> /\ GreaterThan(p.size, Number(filters.sizeMax)))

FilterPotholes(ps, filters, fc, sel, clock) ==
  SelectSeq(ps, LAMBDA p : KeepPothole(p, filters, fc, sel, clock))

(***************************************************************************)
(* Values of the state.                                                    *)
(***************************************************************************)
NoMap == "null"
TheMap == "map"

InitialView ==
  [cmd |-> "init", center |-> <<InitialLat, InitialLng>>, zoom |-> InitialZoom,
   bounds |-> NoBounds]
\* map.fitBounds(bounds.pad(0.1)); the padding is a fixed ratio and is left out
FitBoundsView(f) ==
  [cmd |-> "fitBounds", center |-> <<0, 0>>, zoom |-> 0, bounds |-> getBounds(f)]
\* map.flyTo([lat, lon], 13)
FlyToView(lat, lon) ==
  [cmd |-> "flyTo", center |-> <<lat, lon>>, zoom |-> FlyToZoom, bounds |-> NoBounds]

\* useState initial values of selectedFilters and inputs; a Set is modelled
\* as the sequence of its members in insertion order (what Array.from yields)
InitialCriteria ==
  [dateRange |-> "all", severities |-> <<>>, statuses |-> <<>>,
   sizeMin |-> <<>>, sizeMax |-> <<>>]

\* the object clearFilters writes to both copies
ClearedCriteria ==
  [dateRange |-> "today", severities |-> <<>>, statuses |-> <<>>,
   sizeMin |-> <<>>, sizeMax |-> <<>>]

\* the clock when the page is opened: 3 January, 10:00
StartTime == 58

\* buildInitialPotholes(): ids dense from 0, sizes in 10..49, detected within
\* the 7 days before the page was opened
SamplePotholes ==
  << [id |-> 0, lat |-> 0, lng |-> 0, severity |-> "critical", status |-> "pending",
      size |-> 20, detected |-> 57],
     [id |-> 1, lat |-> 0, lng |-> 1, severity |-> "high", status |-> "repaired",
      size |-> 15, detected |-> 48],
     [id |-> 2, lat |-> 5, lng |-> 5, severity |-> "critical", status |-> "inProgress",
      size |-> 40, detected |-> -50],
     [id |-> 3, lat |-> 1, lng |-> 0, severity |-> "low", status |-> "repaired",
      size |-> 30, detected |-> -100] >>

(***************************************************************************)
(* Inputs of the handlers.                                                 *)
(***************************************************************************)
\* text typed into the search box
QueryPool == { <<" ">>, <<"A">>, <<"E_acute", " ">>, <<"M", "5">> }

\* options chosen and ticked in the filter tab
DateRangeChoices == {"all", "today", "last7"}
SeverityChoices == {"critical"}
StatusChoices == {"repaired"}
\* e.target.value of an <input type="number">: empty or a numeric literal
SizeMinValues == { <<>>, <<"2", "0">> }
SizeMaxValues == { <<>>, <<"3", "0">> }
\* hours the clock may advance between two events: a day, 30 days
TickHours == {24, 720}

\* a geocode request in flight is the suspended handler; of what it captured
\* its continuation reads only the map
Request(m) == [map |-> m]
NoRequest == Request(NoMap)

\* a response of the geocoding service: the fetch rejects, or resolves with
\* res.ok and a body that is invalid JSON, a JSON object or a JSON array
Response(rejects, ok, json, results) ==
  [rejects |-> rejects, ok |-> ok, json |-> json, results |-> results]
Entry(lat, lon) == [isNull |-> FALSE, lat |-> lat, lon |-> lon]
NullEntry == [isNull |-> TRUE, lat |-> <<>>, lon |-> <<>>]
NoResponse == Response(FALSE, FALSE, "none", <<>>)

ResponsePool ==
  { Response(TRUE, FALSE, "none", <<>>),                     \* network error
    Response(FALSE, FALSE, "array",                          \* HTTP 500
             <<Entry(<<"4", "3">>, <<"-", "7", "9">>)>>),
    Response(FALSE, TRUE, "invalid", <<>>),                  \* body is not JSON
    Response(FALSE, TRUE, "object", <<>>),                   \* JSON, not a list
    Response(FALSE, TRUE, "array", <<>>),                    \* no result
    Response(FALSE, TRUE, "array", <<NullEntry>>),
    Response(FALSE, TRUE, "array", <<Entry(<<"x">>, <<"-", "7", "9">>)>>),
    Response(FALSE, TRUE, "array", <<Entry(<<"4", "3">>, <<"-", "7", "9">>)>>),
    Response(FALSE, TRUE, "array",
             <<Entry(<<" ", "4", "x">>, <<"7">>), Entry(<<"1">>, <<"1">>)>>) }

Op(name, idx, req, resp) ==
  [op |-> name, idx |-> idx, req |-> req, resp |-> resp, late |-> FALSE]
Did(name) == Op(name, -1, NoRequest, NoResponse)

(***************************************************************************)
(* mulberry32: the seeded generator of buildInitialPotholes.  A 32-bit     *)
(* word is the pair <<high half, low half>> of 16-bit halves, so that no   *)
(* intermediate value leaves the integers of the checker.  The closure's   *)
(* seed grows without wrapping in the source, but every use of it is a     *)
(* 32-bit operation and it stays below 2^53 for the calls one run makes,   *)
(* so the wrapped sum below is the value those operations see.             *)
(***************************************************************************)
Half == 65536
Byte == 256
Gamma == <<27947, 31221>>                     \* 0x6d2b79f5

RECURSIVE Xor16(_, _)
Xor16(a, b) ==
  IF a = 0 THEN b
  ELSE IF b = 0 THEN a
  ELSE (((a % 2) + (b % 2)) % 2) + 2 * Xor16(a \div 2, b \div 2)

RECURSIVE Or16(_, _)
Or16(a, b) ==
  IF a = 0 THEN b
  ELSE IF b = 0 THEN a
  ELSE (IF (a % 2) + (b % 2) > 0 THEN 1 ELSE 0) + 2 * Or16(a \div 2, b \div 2)

\* x ^ y
XorW(x, y) == <<Xor16(x[1], y[1]), Xor16(x[2], y[2])>>

\* x | c for a constant below 2^16
OrW(x, c) == <<x[1], Or16(x[2], c)>>

\* (x + y) wrapped to 32 bits
AddW(x, y) ==
  LET lo == x[2] + y[2]
      hi == x[1] + y[1] + (lo \div Half)
  IN  <<hi % Half, lo % Half>>

\* x >>> k for 0 < k < 16
ShrW(x, k) ==
  <<x[1] \div (2 ^ k), (x[2] \div (2 ^ k)) + (x[1] % (2 ^ k)) * (2 ^ (16 - k))>>

\* the 32-bit product of two 16-bit halves
Mul16(a, b) ==
  LET p0 == a * (b % Byte)
      p1 == a * (b \div Byte)
      lo == (p0 % Half) + (p1 % Byte) * Byte
      hi == (p0 \div Half) + (p1 \div Byte) + (lo \div Half)
  IN  <<hi % Half, lo % Half>>

\* Math.imul: the low 32 bits of the product
imul(x, y) ==
  LET low == Mul16(x[2], y[2])
      cross == Mul16(x[1], y[2])[2] + Mul16(x[2], y[1])[2]
  IN  <<(low[1] + cross) % Half, low[2]>>

\* The three lines of the closure's body after the seed is advanced.  Each
\* binds its operand through a singleton set, so that the operand is
\* evaluated once however often the line uses it.
Scramble15(t) ==
  CHOOSE r \in { imul(XorW(x, ShrW(x, 15)), OrW(x, 1)) : x \in {t} } : TRUE

Scramble7(t) ==
  CHOOSE r \in { XorW(x, AddW(x, imul(XorW(x, ShrW(x, 7)), OrW(x, 61)))) : x \in {t} } : TRUE

Scramble14(t) ==
  CHOOSE r \in { XorW(x, ShrW(x, 14)) : x \in {t} } : TRUE

\* one call of the closure: the advanced seed and the word that, divided by
\* 4294967296, is the number returned
mulberry32(seed) ==
  CHOOSE r \in { [seed |-> s, word |-> Scramble14(Scramble7(Scramble15(s)))] :
                 s \in {AddW(seed, Gamma)} } : TRUE

\* Math.floor(rand() * n) for the word w of rand(), 0 < n < 2^15
FloorScale(w, n) == (w[1] * n + ((w[2] * n) \div Half)) \div Half

\* the results of n successive calls
RECURSIVE DrawsFrom(_, _)
DrawsFrom(seed, n) ==
  IF n = 0 THEN <<>>
  ELSE CHOOSE r \in { <<d>> \o DrawsFrom(d.seed, n - 1) : d \in {mulberry32(seed)} } : TRUE

\* the calls of rand() one pass of the loop makes
CallsPerPass == 6
Draws(seed) == DrawsFrom(seed, CallsPerPass)

(***************************************************************************)
(* buildInitialPotholes.  Positions are metres north and east of           *)
(* torontoCenter; rand() is resolved to PositionSteps values per axis.     *)
(***************************************************************************)
targetCount == 80
AttemptsPerRecord == 50
maxAttempts == targetCount * AttemptsPerRecord
MinSeparation == 10
SizeSpread == 40
SizeBase == 10
DetectionWindow == Last7Days * HoursPerDay
LatJitter == 16679                            \* 0.15 degrees of latitude, in metres
LngJitter == 16092                            \* 0.2 degrees of longitude at 43.6532 N

Jitter(w, span, steps) == ((FloorScale(w, steps) * span) \div steps) - (span \div 2)

\* turf.distance(...) * 1000 < meters
withinMeters(a, b, meters) ==
  (a.lat - b.lat) * (a.lat - b.lat) + (a.lng - b.lng) * (a.lng - b.lng) < meters * meters

\* looks at the newest accepted record only
existsWithinMetersNewest(list, candidate, meters) ==
  /\ list # <<>>
  /\ withinMeters(list[Len(list)], candidate, meters)

existsWithinMeters(list, candidate, meters) ==
  \E i \in 1..Len(list) : withinMeters(list[i], candidate, meters)

\* the candidate of one pass of the loop from its draws, in the order the
\* source calls rand(): severity, status, size, detected, lat, lng
Candidate(draws, attempts, clock, steps) ==
  [id |-> attempts,
   lat |-> Jitter(draws[5].word, LatJitter, steps),
   lng |-> Jitter(draws[6].word, LngJitter, steps),
   severity |-> SEVERITIES[FloorScale(draws[1].word, Len(SEVERITIES)) + 1],
   status |-> STATUSES[FloorScale(draws[2].word, Len(STATUSES)) + 1],
   size |-> FloorScale(draws[3].word, SizeSpread) + SizeBase,
   detected |-> clock - FloorScale(draws[4].word, DetectionWindow)]

\* items.map((p, i) => ({ ...p, id: i }))
Reindex(items) == [i \in 1..Len(items) |-> [items[i] EXCEPT !.id = i - 1]]

\* no call of buildInitialPotholes is running
GeneratorIdle ==
  [phase |-> "idle", seed0 |-> <<0, 0>>, steps |-> 1, clocks |-> <<>>, run |-> 0,
   seed |-> <<0, 0>>, attempts |-> 0, items |-> <<>>, returned |-> <<>>]


(***************************************************************************)
(* Initial state: the values of useState and the first render.             *)
(***************************************************************************)
Init ==
  /\ generator = GeneratorIdle
  /\ potholes = SamplePotholes
  /\ fetchState = "pending"
  /\ neighborhoodsFC = NoFC
  /\ map = NoMap
  /\ view = InitialView
  /\ searchQuery = <<>>
  /\ selectedNeighborhoodIds = {}
  /\ selectedFilters = InitialCriteria
  /\ inputs = InitialCriteria
  /\ pending = <<>>
  /\ now = StartTime
  /\ filteredPotholes = FilterPotholes(SamplePotholes, InitialCriteria, NoFC, {}, StartTime)
  /\ evaluatedAt = StartTime
  /\ lastOp = Did("init")
  /\ overtaken = <<>>

\* useMemo recomputes the filter in the render that follows a change of one
\* of its dependencies
Recompute ==
  /\ filteredPotholes' = FilterPotholes(potholes', selectedFilters', neighborhoodsFC',
                                        selectedNeighborhoodIds', now')
  /\ evaluatedAt' = now'

\* a render in which no dependency of the memo changed keeps its value
KeepMemo == UNCHANGED <<filteredPotholes, evaluatedAt>>

\* setSelectedNeighborhoodIds ran: a boundary it leaves selected was selected
\* after every request still in flight was issued
SelectionWritten(inFlight) ==
  overtaken' = [k \in 1..inFlight |-> selectedNeighborhoodIds' # {}]

(***************************************************************************)
(* useNeighborhoods: the one-shot fetch of the boundary file.              *)
(***************************************************************************)
FetchResolve ==
  \E fc \in FCPool :
    /\ fetchState = "pending"
    /\ fetchState' = "resolved"
    /\ neighborhoodsFC' = fc
    /\ lastOp' = Did("fetchResolve")
    /\ UNCHANGED <<overtaken, generator, potholes, map, view, searchQuery, selectedNeighborhoodIds,
                   selectedFilters, inputs, pending, now>>
    /\ Recompute

\* fetch rejects or r.json() throws: setFc(null)
FetchReject ==
  /\ fetchState = "pending"
  /\ fetchState' = "rejected"
  /\ neighborhoodsFC' = NoFC
  /\ lastOp' = Did("fetchReject")
  /\ UNCHANGED <<overtaken, generator, potholes, map, view, searchQuery, selectedNeighborhoodIds,
                 selectedFilters, inputs, pending, now>>
  /\ KeepMemo

\* whenCreated={setMap}
WhenCreated ==
  /\ map = NoMap
  /\ map' = TheMap
  /\ lastOp' = Did("whenCreated")
  /\ UNCHANGED <<overtaken, generator, potholes, fetchState, neighborhoodsFC, view, searchQuery,
                 selectedNeighborhoodIds, selectedFilters, inputs, pending, now>>
  /\ KeepMemo

(***************************************************************************)
(* Direct boundary selection.                                              *)
(***************************************************************************)
\* mutant: a click adds to the selection or removes from it
clickUpdaterAdditive(prev, idx) ==
  IF idx \in prev THEN prev \ {idx} ELSE prev \cup {idx}

\* the updater of the layer's click handler
clickUpdater(prev, idx) ==
  IF Cardinality(prev) = 1 /\ idx \in prev THEN {} ELSE {idx}

\* mutant: a checkbox that adds to and removes from the selection
checkboxUpdaterAdditive(prev, idx) ==
  IF idx \in prev THEN prev \ {idx} ELSE prev \cup {idx}

\* the updater of the neighborhood checkbox's onChange
checkboxUpdater(prev, idx) ==
  IF Cardinality(prev) = 1 /\ idx \in prev THEN {} ELSE {idx}

\* a layer exists for every feature of neighborhoodsWithIdx
NeighborhoodClick ==
  \E idx \in 0..(Len(neighborhoodsFC.features) - 1) :
    /\ HasFC(neighborhoodsFC)
    /\ selectedNeighborhoodIds' = clickUpdater(selectedNeighborhoodIds, idx)
    /\ lastOp' = Op("click", idx, NoRequest, NoResponse)
    /\ SelectionWritten(Len(pending))
    /\ UNCHANGED <<generator, potholes, fetchState, neighborhoodsFC, map, view, searchQuery,
                   selectedFilters, inputs, pending, now>>
    /\ Recompute

\* a checkbox is rendered for every feature when neighborhoodsFC is set
NeighborhoodCheckbox ==
  \E idx \in 0..(Len(neighborhoodsFC.features) - 1) :
    /\ HasFC(neighborhoodsFC)
    /\ selectedNeighborhoodIds' = checkboxUpdater(selectedNeighborhoodIds, idx)
    /\ lastOp' = Op("checkbox", idx, NoRequest, NoResponse)
    /\ SelectionWritten(Len(pending))
    /\ UNCHANGED <<generator, potholes, fetchState, neighborhoodsFC, map, view, searchQuery,
                   selectedFilters, inputs, pending, now>>
    /\ Recompute

(***************************************************************************)
(* Search.                                                                 *)
(***************************************************************************)
SetSearchQuery ==
  \E text \in QueryPool :
    /\ text # searchQuery
    /\ searchQuery' = text
    /\ lastOp' = Did("setSearchQuery")
    /\ UNCHANGED <<overtaken, generator, potholes, fetchState, neighborhoodsFC, map, view,
                   selectedNeighborhoodIds, selectedFilters, inputs, pending, now>>
    /\ KeepMemo

\* mutant: the substring match is tried before the exact match
resolveQueryFuzzyFirst(q, index) ==
  LET exact == IF Len(index) > 0 THEN FindExact(index, q, 1) ELSE 0
      fuzzy == IF Len(index) > 0 THEN FindIncluding(index, q, 1) ELSE 0
  IN  IF fuzzy # 0 THEN [kind |-> "fuzzy", idx |-> index[fuzzy].idx]
      ELSE IF exact # 0 THEN [kind |-> "exact", idx |-> index[exact].idx]
      ELSE [kind |-> "geocode", idx |-> -1]

\* steps 1 and 2 of handleSearch: the entry of the index the query resolves
\* to, [kind, idx]; kind "geocode" when no name matches
resolveQuery(q, index) ==
  LET exact == IF Len(index) > 0 THEN FindExact(index, q, 1) ELSE 0
      fuzzy == IF Len(index) > 0 THEN FindIncluding(index, q, 1) ELSE 0
  IN  IF exact # 0 THEN [kind |-> "exact", idx |-> index[exact].idx]
      ELSE IF fuzzy # 0 THEN [kind |-> "fuzzy", idx |-> index[fuzzy].idx]
      ELSE [kind |-> "geocode", idx |-> -1]

\* if (map && bounds.isValid()) map.fitBounds(bounds.pad(0.1))
fitBoundsOf(m, f, current) ==
  IF m # NoMap /\ boundsIsValid(f) THEN FitBoundsView(f) ELSE current

handleSearch ==
  LET q == normalize(searchQuery)
      hit == resolveQuery(q, neighborhoodIndex)
  IN  /\ lastOp' = Did("handleSearch")
      /\ UNCHANGED <<generator, potholes, fetchState, neighborhoodsFC, map, searchQuery,
                     selectedFilters, inputs, now>>
      /\ IF q = <<>>
           THEN /\ UNCHANGED <<view, selectedNeighborhoodIds, pending, overtaken>>
                /\ KeepMemo
         ELSE IF hit.kind \in {"exact", "fuzzy"}
           THEN /\ selectedNeighborhoodIds' = {hit.idx}
                /\ view' = fitBoundsOf(map, neighborhoodsFC.features[hit.idx + 1], view)
                /\ UNCHANGED pending
                /\ SelectionWritten(Len(pending))
                /\ Recompute
         ELSE /\ Len(pending) < MaxPending
              /\ pending' = Append(pending, Request(map))
              /\ overtaken' = Append(overtaken, FALSE)
              /\ UNCHANGED <<view, selectedNeighborhoodIds>>
              /\ KeepMemo

\* mutant: the HTTP status is not looked at
geocodeThrowsIgnoresStatus(resp) ==
  \/ resp.rejects
  \/ resp.json = "invalid"
  \/ resp.json = "array" /\ Len(resp.results) > 0 /\ resp.results[1].isNull

\* the await of fetch or res.json() throws, !res.ok throws, or reading
\* results[0].lat of a null entry throws: caught and logged
geocodeThrows(resp) ==
  \/ resp.rejects
  \/ ~resp.ok
  \/ resp.json = "invalid"
  \/ resp.json = "array" /\ Len(resp.results) > 0 /\ resp.results[1].isNull

\* mutant: the coordinates are read with Number instead of parseFloat
geocodeAppliesNumber(req, resp) ==
  /\ ~(resp.rejects \/ ~resp.ok \/ resp.json = "invalid")
  /\ resp.json = "array"
  /\ Len(resp.results) > 0
  /\ ~resp.results[1].isNull
  /\ req.map # NoMap
  /\ ~Number(resp.results[1].lat).nan
  /\ ~Number(resp.results[1].lon).nan

\* mutant: a result is dropped when a boundary is selected by the time it
\* arrives
geocodeAppliesIfCurrent(req, resp) ==
  /\ ~(resp.rejects \/ ~resp.ok \/ resp.json = "invalid")
  /\ resp.json = "array"
  /\ Len(resp.results) > 0
  /\ ~resp.results[1].isNull
  /\ req.map # NoMap
  /\ ~ParseFloat(resp.results[1].lat).nan
  /\ ~ParseFloat(resp.results[1].lon).nan
  /\ selectedNeighborhoodIds = {}

\* Array.isArray(results) && results.length > 0, and then
\* map && !Number.isNaN(lat) && !Number.isNaN(lon), with the map the handler
\* captured when the search was submitted
geocodeApplies(req, resp) ==
  /\ ~geocodeThrows(resp)
  /\ resp.json = "array"
  /\ Len(resp.results) > 0
  /\ req.map # NoMap
  /\ ~ParseFloat(resp.results[1].lat).nan
  /\ ~ParseFloat(resp.results[1].lon).nan

RemoveAt(s, k) == SubSeq(s, 1, k - 1) \o SubSeq(s, k + 1, Len(s))

\* the continuation of handleSearch after its awaits, for request k
GeocodeComplete ==
  \E k \in 1..Len(pending), resp \in ResponsePool :
    /\ pending' = RemoveAt(pending, k)
    /\ lastOp' = [Op("geocodeDone", -1, pending[k], resp) EXCEPT !.late = overtaken[k]]
    /\ UNCHANGED <<generator, potholes, fetchState, neighborhoodsFC, map, searchQuery,
                   selectedFilters, inputs, now>>
    /\ IF geocodeApplies(pending[k], resp)
         THEN /\ selectedNeighborhoodIds' = {}
              /\ view' = FlyToView(ParseFloat(resp.results[1].lat).val,
                                   ParseFloat(resp.results[1].lon).val)
              /\ SelectionWritten(Len(pending) - 1)
              /\ Recompute
         ELSE /\ UNCHANGED <<view, selectedNeighborhoodIds>>
              /\ overtaken' = RemoveAt(overtaken, k)
              /\ KeepMemo

(***************************************************************************)
(* The filter tab.                                                         *)
(***************************************************************************)
toggleSetValue(set, value) ==
  IF InArray(set, value) THEN SelectSeq(set, LAMBDA x : x # value)
  ELSE Append(set, value)

\* the object applyFilters hands to setSelectedFilters
appliedFrom(draft) ==
  [dateRange |-> draft.dateRange, severities |-> draft.severities,
   statuses |-> draft.statuses, sizeMin |-> draft.sizeMin, sizeMax |-> draft.sizeMax]

\* mutant: an edit of the draft is applied at once
DraftEditApplies(name, next) ==
  /\ inputs' = next
  /\ selectedFilters' = appliedFrom(next)
  /\ lastOp' = Did(name)
  /\ UNCHANGED <<overtaken, generator, potholes, fetchState, neighborhoodsFC, map, view, searchQuery,
                 selectedNeighborhoodIds, pending, now>>
  /\ Recompute

\* setInputs((s) => ({ ...s, field: value }))
DraftEdit(name, next) ==
  /\ inputs' = next
  /\ lastOp' = Did(name)
  /\ UNCHANGED <<overtaken, generator, potholes, fetchState, neighborhoodsFC, map, view, searchQuery,
                 selectedNeighborhoodIds, selectedFilters, pending, now>>
  /\ KeepMemo

SetDateRange ==
  \E v \in DateRangeChoices :
    v # inputs.dateRange /\ DraftEdit("setDateRange", [inputs EXCEPT !.dateRange = v])

ToggleSeverity ==
  \E sev \in SeverityChoices :
    DraftEdit("toggleSeverity",
              [inputs EXCEPT !.severities = toggleSetValue(inputs.severities, sev)])

ToggleStatus ==
  \E st \in StatusChoices :
    DraftEdit("toggleStatus",
              [inputs EXCEPT !.statuses = toggleSetValue(inputs.statuses, st)])

SetSizeMin ==
  \E v \in SizeMinValues :
    v # inputs.sizeMin /\ DraftEdit("setSizeMin", [inputs EXCEPT !.sizeMin = v])

SetSizeMax ==
  \E v \in SizeMaxValues :
    v # inputs.sizeMax /\ DraftEdit("setSizeMax", [inputs EXCEPT !.sizeMax = v])

applyFilters ==
  /\ selectedFilters' = appliedFrom(inputs)
  /\ lastOp' = Did("applyFilters")
  /\ UNCHANGED <<overtaken, generator, potholes, fetchState, neighborhoodsFC, map, view, searchQuery,
                 selectedNeighborhoodIds, inputs, pending, now>>
  /\ Recompute

clearFilters ==
  /\ inputs' = ClearedCriteria
  /\ selectedFilters' = ClearedCriteria
  /\ selectedNeighborhoodIds' = {}
  /\ lastOp' = Did("clearFilters")
  /\ SelectionWritten(Len(pending))
  /\ UNCHANGED <<generator, potholes, fetchState, neighborhoodsFC, map, view, searchQuery,
                 pending, now>>
  /\ Recompute

\* time passes between two events
ticksTaken == ((now - StartTime) \div 720) + (((now - StartTime) % 720) \div 24)

Tick ==
  \E h \in TickHours :
    /\ ticksTaken < MaxTicks
    /\ now' = now + h
    /\ lastOp' = Did("tick")
    /\ UNCHANGED <<overtaken, generator, potholes, fetchState, neighborhoodsFC, map, view, searchQuery,
                   selectedNeighborhoodIds, selectedFilters, inputs, pending>>
    /\ KeepMemo

(***************************************************************************)
(* Specifications.                                                         *)
(***************************************************************************)
\* the map, the search box, the geocode fallback and the boundary selection
Next ==
  \/ FetchResolve
  \/ FetchReject
  \/ WhenCreated
  \/ NeighborhoodClick
  \/ NeighborhoodCheckbox
  \/ SetSearchQuery
  \/ handleSearch
  \/ GeocodeComplete
  \/ applyFilters
  \/ clearFilters

Spec == Init /\ [][Next]_vars

\* the filter tab: draft edits, apply and clear, with the clock running
PanelNext ==
  \/ SetDateRange
  \/ ToggleSeverity
  \/ ToggleStatus
  \/ SetSizeMin
  \/ SetSizeMax
  \/ applyFilters
  \/ clearFilters
  \/ Tick

PanelSpec == Init /\ [][PanelNext]_vars

(***************************************************************************)
(* The filter on its own: the useMemo callback run once on an input drawn  *)
(* from the values its arguments can hold.                                 *)
(***************************************************************************)
RecordPool == Range(SamplePotholes)

\* record sets: distinct records (no two share a location), ids dense from 0
RecordSets ==
  UNION { { [i \in 1..n |-> [s[i] EXCEPT !.id = i - 1]] :
            s \in { t \in [1..n -> RecordPool] :
                      \A i, j \in 1..n : i # j => t[i] # t[j] } } :
          n \in 1..MaxRecords }

\* a selection the handlers can leave behind for a collection
SelectionsOf(fc) ==
  {{}} \cup { {i} : i \in 0..(Len(fc.features) - 1) }

SeverityArrays == { <<>>, <<"critical">>, <<"low", "critical">> }
StatusArrays == { <<>>, <<"repaired">> }
ClockValues == {StartTime} \cup {StartTime + h : h \in TickHours}

\* criteria the filter tab can apply
CriteriaPool ==
  [dateRange : DateRangeOptions, severities : SeverityArrays, statuses : StatusArrays,
   sizeMin : SizeMinValues, sizeMax : SizeMaxValues]

\* criteria whose size bounds hold arbitrary text
RawSizeTexts ==
  { <<>>, <<"2", "0">>, <<" ", "3", "0">>, <<" ">>, <<"x">>, <<"2", "x">> }

RawCriteriaPool ==
  [dateRange : {"all"}, severities : {<<>>, <<"critical">>}, statuses : {<<>>},
   sizeMin : RawSizeTexts, sizeMax : RawSizeTexts]

FilterInputs(criteria, collections) ==
  /\ generator = GeneratorIdle
  /\ potholes \in RecordSets
  /\ neighborhoodsFC \in collections
  /\ fetchState = IF HasFC(neighborhoodsFC) THEN "resolved" ELSE "rejected"
  /\ selectedNeighborhoodIds \in SelectionsOf(neighborhoodsFC)
  /\ selectedFilters \in criteria
  /\ now \in ClockValues
  /\ map = NoMap
  /\ view = InitialView
  /\ searchQuery = <<>>
  /\ inputs = InitialCriteria
  /\ pending = <<>>
  /\ filteredPotholes = <<>>
  /\ evaluatedAt = now
  /\ lastOp = Did("init")
  /\ overtaken = <<>>

FilterInit == FilterInputs(CriteriaPool, {NoFC} \cup FCPool)

RawFilterInit == FilterInputs(RawCriteriaPool, {NoFC, TorontoFC})

\* the useMemo callback runs
Render ==
  /\ lastOp.op = "init"
  /\ lastOp' = Did("render")
  /\ UNCHANGED <<overtaken, generator, potholes, fetchState, neighborhoodsFC, map, view, searchQuery,
                 selectedNeighborhoodIds, selectedFilters, inputs, pending, now>>
  /\ Recompute

FilterNext == Render

FilterSpec == FilterInit /\ [][FilterNext]_vars

RawFilterSpec == RawFilterInit /\ [][FilterNext]_vars

(***************************************************************************)
(* The generator on its own: buildInitialPotholes called at mount and      *)
(* called once more at a later time, each pass of its loop one step.       *)
(***************************************************************************)
Runs == 2
SeedPool == { <<0, 12345>>, <<40503, 31161>> }
StepsPool == { PositionSteps, PositionSteps + 2 }
LaterClocks == { StartTime, StartTime + HoursPerDay }

GeneratorInit ==
  /\ generator \in
       { [phase |-> "ready", seed0 |-> s, steps |-> n, clocks |-> <<StartTime>> \o [r \in 1..(Runs - 1) |-> c],
          run |-> 0, seed |-> s, attempts |-> 0, items |-> <<>>, returned |-> <<>>] :
         s \in SeedPool, n \in StepsPool, c \in LaterClocks }
  /\ potholes = <<>>
  /\ fetchState = "pending"
  /\ neighborhoodsFC = NoFC
  /\ map = NoMap
  /\ view = InitialView
  /\ searchQuery = <<>>
  /\ selectedNeighborhoodIds = {}
  /\ selectedFilters = InitialCriteria
  /\ inputs = InitialCriteria
  /\ pending = <<>>
  /\ now = StartTime
  /\ filteredPotholes = <<>>
  /\ evaluatedAt = StartTime
  /\ lastOp = Did("init")
  /\ overtaken = <<>>

UIUnchanged ==
  UNCHANGED <<overtaken, fetchState, neighborhoodsFC, map, view, searchQuery,
              selectedNeighborhoodIds, selectedFilters, inputs, pending, now>>

\* the loop condition of buildInitialPotholes
Looping(g) == Len(g.items) < targetCount /\ g.attempts < maxAttempts

\* buildInitialPotholes is entered: rand = mulberry32(seed), items = [], attempts = 0
GenCall ==
  /\ generator.phase \in {"ready", "returned"}
  /\ generator.run < Runs
  /\ generator' = [generator EXCEPT !.phase = "loop", !.run = @ + 1,
                                    !.seed = generator.seed0, !.attempts = 0,
                                    !.items = <<>>]
  /\ lastOp' = Did("call")
  /\ UNCHANGED potholes
  /\ UIUnchanged
  /\ KeepMemo

\* one pass of the while loop
GenAttempt ==
  /\ generator.phase = "loop"
  /\ Looping(generator)
  /\ \E draws \in {Draws(generator.seed)} :
       \E cand \in {Candidate(draws, generator.attempts + 1,
                               generator.clocks[generator.run], generator.steps)} :
         generator' =
           [generator EXCEPT
              !.seed = draws[CallsPerPass].seed,
              !.attempts = @ + 1,
              !.items = IF existsWithinMeters(@, cand, MinSeparation)
                          THEN @ ELSE Append(@, cand)]
  /\ lastOp' = Did("attempt")
  /\ UNCHANGED potholes
  /\ UIUnchanged
  /\ KeepMemo

\* the loop is left and the list returned; the call at mount is the
\* initialiser of useState
GenReturn ==
  /\ generator.phase = "loop"
  /\ ~Looping(generator)
  /\ generator' = [generator EXCEPT !.phase = "returned",
                                    !.returned = Append(@, Reindex(generator.items))]
  /\ lastOp' = Did("return")
  /\ UIUnchanged
  /\ IF generator.run = 1
       THEN potholes' = Reindex(generator.items) /\ Recompute
       ELSE UNCHANGED potholes /\ KeepMemo

GeneratorNext ==
  \/ GenCall
  \/ GenAttempt
  \/ GenReturn

GeneratorSpec == GeneratorInit /\ [][GeneratorNext]_vars

(***************************************************************************)
(* Properties.                                                             *)
(***************************************************************************)
DraftOps == {"setDateRange", "toggleSeverity", "toggleStatus", "setSizeMin", "setSizeMax"}
SelectOps == {"click", "checkbox"}

\* C1: an edit of the draft criteria (date range, severity, status, size
\* minimum or maximum) leaves the applied criteria and the rendered record
\* set as they were, and the applied criteria change only in a step of
\* applyFilters or clearFilters.
C1_DraftEditsLeaveApplied ==
  [][ /\ lastOp'.op \in DraftOps =>
           /\ selectedFilters' = selectedFilters
           /\ filteredPotholes' = filteredPotholes
      /\ selectedFilters' # selectedFilters =>
           lastOp'.op \in {"applyFilters", "clearFilters"} ]_vars

\* a draft edit has run, the draft differs from the applied criteria, and the
\* rendered set is not what the draft would show now
C1_Witness ==
  /\ lastOp.op \in DraftOps
  /\ inputs # selectedFilters
  /\ now # evaluatedAt
  /\ filteredPotholes #
       FilterPotholes(potholes, inputs, neighborhoodsFC, selectedNeighborhoodIds, now)

\* C2: after clearFilters the draft and the applied criteria both equal the
\* criteria held at startup (date range "all", nothing ticked, no bounds).
C2_ClearRestoresStartup ==
  lastOp.op = "clearFilters" =>
    /\ inputs = InitialCriteria
    /\ selectedFilters = InitialCriteria

\* C3: a click or a checkbox change on boundary i makes the selection empty
\* when it was exactly {i} and exactly {i} otherwise; so selecting the same
\* boundary again right after it was selected returns to the empty selection.
C3_SelectRule ==
  [][ lastOp'.op \in SelectOps =>
        /\ selectedNeighborhoodIds' =
             IF selectedNeighborhoodIds = {lastOp'.idx} THEN {} ELSE {lastOp'.idx}
        /\ (lastOp.op \in SelectOps /\ lastOp.idx = lastOp'.idx
              /\ selectedNeighborhoodIds # {})
             => selectedNeighborhoodIds' = {} ]_vars

\* the second of two selections of the same boundary has cleared the selection
C3_Witness ==
  /\ lastOp.op \in SelectOps
  /\ selectedNeighborhoodIds = {}
  /\ HasFC(neighborhoodsFC)

BoundaryName(i) == normalize(featureName(neighborhoodsFC.features[i + 1]))
BoundaryIds == 0..(Len(neighborhoodsFC.features) - 1)
ExactMatches(q) == {i \in BoundaryIds : BoundaryName(i) = q}
SubstringMatches(q) == {i \in BoundaryIds : Includes(BoundaryName(i), q)}

\* C4: a search with a non-empty normalized query selects exactly the first
\* boundary whose normalized name equals the query and issues no geocode
\* request; failing that, it selects exactly the first boundary whose name
\* contains the query and issues no request; it issues a geocode request
\* only, and then exactly one, when no name matches.
C4_SearchPriority ==
  [][ (lastOp'.op = "handleSearch" /\ normalize(searchQuery) # <<>>) =>
        LET q == normalize(searchQuery)
        IN  /\ ExactMatches(q) # {} =>
                 /\ selectedNeighborhoodIds' = {Min(ExactMatches(q))}
                 /\ pending' = pending
            /\ (ExactMatches(q) = {} /\ SubstringMatches(q) # {}) =>
                 /\ selectedNeighborhoodIds' = {Min(SubstringMatches(q))}
                 /\ pending' = pending
            /\ (ExactMatches(q) = {} /\ SubstringMatches(q) = {}) =>
                 /\ Len(pending') = Len(pending) + 1
                 /\ selectedNeighborhoodIds' = selectedNeighborhoodIds
            /\ Len(pending') > Len(pending) => SubstringMatches(q) = {} ]_vars

\* a search has selected the boundary named exactly like the query although
\* an earlier boundary contains the query
C4_Witness ==
  /\ lastOp.op = "handleSearch"
  /\ \E j \in BoundaryIds :
       /\ selectedNeighborhoodIds = {j}
       /\ BoundaryName(j) = normalize(searchQuery)
       /\ \E i \in 0..(j - 1) :
            /\ Includes(BoundaryName(i), normalize(searchQuery))
            /\ BoundaryName(i) # normalize(searchQuery)

\* a non-empty result list whose first entry has parseable coordinates
ValidCoordinateResult(resp) ==
  /\ ~resp.rejects
  /\ resp.ok
  /\ resp.json = "array"
  /\ Len(resp.results) > 0
  /\ ~resp.results[1].isNull
  /\ ~ParseFloat(resp.results[1].lat).nan
  /\ ~ParseFloat(resp.results[1].lon).nan

Recentered(resp) ==
  /\ selectedNeighborhoodIds = {}
  /\ view = FlyToView(ParseFloat(resp.results[1].lat).val,
                      ParseFloat(resp.results[1].lon).val)

\* C5 as stated: once a geocode request has completed with a valid
\* coordinate result, the selection is empty and the view has been told to
\* fly to that coordinate at zoom 13.
C5_ValidResultRecenters ==
  (lastOp.op = "geocodeDone" /\ ValidCoordinateResult(lastOp.resp)) =>
    Recentered(lastOp.resp)

\* C5 as amended: the same, for a search submitted when the map instance
\* was already set.
C5_ValidResultRecentersWithMap ==
  (lastOp.op = "geocodeDone" /\ ValidCoordinateResult(lastOp.resp)
     /\ lastOp.req.map # NoMap) =>
    Recentered(lastOp.resp)

\* a valid result has been applied for a search submitted with the map set
C5_Witness ==
  /\ lastOp.op = "geocodeDone"
  /\ ValidCoordinateResult(lastOp.resp)
  /\ lastOp.req.map # NoMap
  /\ view.cmd = "flyTo"
  /\ HasFC(neighborhoodsFC)

\* C6: the completion of a geocode request with anything but a valid
\* coordinate result leaves the selection, both criteria, the viewport, the
\* rendered set and the query as they were, and issues no request: the
\* requests in flight are the earlier ones less the completed one.
C6_FailureChangesNothing ==
  [][ (lastOp'.op = "geocodeDone" /\ ~ValidCoordinateResult(lastOp'.resp)) =>
        /\ UNCHANGED <<selectedNeighborhoodIds, inputs, selectedFilters, view,
                       filteredPotholes, searchQuery, map, neighborhoodsFC>>
        /\ \E k \in 1..Len(pending) : pending' = RemoveAt(pending, k) ]_vars

\* a failed geocode has completed for a search submitted with the map set,
\* and a selection made meanwhile is still there
C6_Witness ==
  /\ lastOp.op = "geocodeDone"
  /\ ~ValidCoordinateResult(lastOp.resp)
  /\ lastOp.req.map # NoMap
  /\ selectedNeighborhoodIds # {}
  /\ view.cmd = "fitBounds"

InsideSomeBoundary(p, fc, ids) ==
  \E i \in ids :
    /\ i \in 0..(Len(fc.features) - 1)
    /\ <<p.lng, p.lat>> \in fc.features[i + 1].cells

AllIds(fc) == 0..(Len(fc.features) - 1)

\* C7: with a boundary collection present, no record lying outside every
\* polygon of the collection is in the filtered set, whatever the selection
\* and the applied criteria; and with a non-empty selection every record of
\* the filtered set lies inside a selected boundary.
C7_OutsideRecordsDropped ==
  (lastOp.op = "render" /\ HasFC(neighborhoodsFC)) =>
    /\ \A i \in 1..Len(potholes) :
         ~InsideSomeBoundary(potholes[i], neighborhoodsFC, AllIds(neighborhoodsFC))
           => potholes[i] \notin Range(filteredPotholes)
    /\ selectedNeighborhoodIds # {} =>
         \A r \in Range(filteredPotholes) :
           InsideSomeBoundary(r, neighborhoodsFC, selectedNeighborhoodIds)

\* a collection is present, a boundary is selected, a record outside every
\* polygon was offered and another record was kept
C7_Witness ==
  /\ lastOp.op = "render"
  /\ HasFC(neighborhoodsFC)
  /\ selectedNeighborhoodIds # {}
  /\ filteredPotholes # <<>>
  /\ \E i \in 1..Len(potholes) :
       ~InsideSomeBoundary(potholes[i], neighborhoodsFC, AllIds(neighborhoodsFC))

\* the attribute predicates of the filter: date, severity, status, size
AttributePass(p, criteria, clock) ==
  /\ dateInRange(p.detected, criteria.dateRange, clock)
  /\ criteria.severities = <<>> \/ p.severity \in Range(criteria.severities)
  /\ criteria.statuses = <<>> \/ p.status \in Range(criteria.statuses)
  /\ criteria.sizeMin # <<>> => p.size >= Number(criteria.sizeMin).val
  /\ criteria.sizeMax # <<>> => p.size <= Number(criteria.sizeMax).val

\* the boundary predicates of the filter, steps 1 and 2
BoundaryPass(p, fc, sel) ==
  /\ HasFC(fc) => InsideSomeBoundary(p, fc, AllIds(fc))
  /\ sel # {} => InsideSomeBoundary(p, fc, sel)

\* C8: once the boundary fetch has failed it stays failed, there is no
\* collection and the name index is empty; every record passing the
\* attribute predicates is in the rendered set; and a search with a
\* non-empty query issues a geocode request and selects nothing.
C8_FailedLoadMeansNoRestriction ==
  /\ [](fetchState = "rejected" =>
          /\ ~HasFC(neighborhoodsFC)
          /\ neighborhoodIndex = <<>>
          /\ \A i \in 1..Len(potholes) :
               AttributePass(potholes[i], selectedFilters, evaluatedAt)
                 => potholes[i] \in Range(filteredPotholes))
  /\ [][ fetchState = "rejected" =>
           /\ fetchState' = "rejected"
           /\ (lastOp'.op = "handleSearch" /\ normalize(searchQuery) # <<>>) =>
                /\ pending' = Append(pending, Request(map))
                /\ UNCHANGED selectedNeighborhoodIds ]_vars

\* after the failed load a search for a name of the boundary file has gone
\* to the geocoder, and all records are shown
C8_Witness ==
  /\ fetchState = "rejected"
  /\ lastOp.op = "handleSearch"
  /\ normalize(searchQuery) = <<"a">>
  /\ pending # <<>>
  /\ filteredPotholes = potholes

\* C9 as stated: the rendered set is exactly the records, in order, that
\* pass the date, severity, status and size predicates.
C9_ExactlyAttributeMatches ==
  lastOp.op = "render" =>
    filteredPotholes =
      SelectSeq(potholes, LAMBDA p : AttributePass(p, selectedFilters, evaluatedAt))

\* C9 as amended: the rendered set is exactly the records, in order, that
\* pass the boundary predicates and the date, severity, status and size
\* predicates; criteria {critical}, no status, minimum 20 yield only critical
\* records of size 20 or more.
C9_ExactlyBoundaryAndAttributeMatches ==
  lastOp.op = "render" =>
    /\ filteredPotholes =
         SelectSeq(potholes,
                   LAMBDA p : /\ BoundaryPass(p, neighborhoodsFC, selectedNeighborhoodIds)
                              /\ AttributePass(p, selectedFilters, evaluatedAt))
    /\ (selectedFilters.severities = <<"critical">> /\ selectedFilters.statuses = <<>>
          /\ selectedFilters.sizeMin = <<"2", "0">>) =>
         \A r \in Range(filteredPotholes) : r.severity = "critical" /\ r.size >= 20

\* the criteria of the scenario were applied and kept two records of
\* different status, one of them of size exactly 20
C9_Witness ==
  /\ lastOp.op = "render"
  /\ selectedFilters.severities = <<"critical">>
  /\ selectedFilters.statuses = <<>>
  /\ selectedFilters.sizeMin = <<"2", "0">>
  /\ Len(filteredPotholes) = 2
  /\ filteredPotholes[1].status # filteredPotholes[2].status
  /\ \E i \in 1..2 : filteredPotholes[i].size = 20
  /\ Len(potholes) > 2

\* text that denotes a number: digits with an optional sign, blanks around it
DenotesNumber(text) ==
  LET t == Unsigned(Trim(text))
  IN  t # <<>> /\ \A i \in 1..Len(t) : t[i] \in Digits

AsUnsetUnlessNumber(text) == IF DenotesNumber(text) THEN text ELSE <<>>

C11_SameSeedSameRecords ==
  \A r \in 1..Len(generator.returned) : generator.returned[r] = generator.returned[1]

\* the list the call that last returned gave back
LastReturned == generator.returned[Len(generator.returned)]

Separated(list) ==
  \A i, j \in 1..Len(list) : i # j => ~withinMeters(list[i], list[j], MinSeparation)

\* C12: the loop never makes more than 50 x N attempts (N = 80) nor accepts
\* more than N records; the list a call returns holds no two records closer
\* than 10 m, holds fewer than N records only when the attempt budget was
\* used up, and carries the accepted records in the order they were accepted
\* with identifiers 0 .. count-1.
C12_SpacedBoundedDense ==
  /\ generator.attempts <= maxAttempts
  /\ Len(generator.items) <= targetCount
  /\ generator.phase = "returned" =>
       /\ Separated(LastReturned)
       /\ Len(LastReturned) = Len(generator.items)
       /\ Len(LastReturned) < targetCount => generator.attempts = maxAttempts
       /\ \A i \in 1..Len(LastReturned) :
            /\ LastReturned[i].id = i - 1
            /\ LastReturned[i] = [generator.items[i] EXCEPT !.id = i - 1]
            /\ i > 1 => generator.items[i - 1].id < generator.items[i].id

\* a call that used up its budget returned fewer than N records, after
\* rejections that left the identifiers of generation order with gaps
C12_Witness ==
  /\ generator.phase = "returned"
  /\ generator.attempts = maxAttempts
  /\ Len(LastReturned) < targetCount
  /\ Len(LastReturned) > 1
  /\ \E i \in 1..Len(generator.items) : generator.items[i].id # i

IsPrefix(s, t) == Len(s) <= Len(t) /\ SubSeq(t, 1, Len(s)) = s

\* C13: a geocode request in flight is never cancelled -- no handler other
\* than its own completion removes it, and a completion removes exactly the
\* request it completes -- and a valid result is applied whatever happened
\* since the search was submitted: when a boundary was selected after the
\* request was issued, the completion still clears that selection and
\* recenters the view to the coordinate of the earlier query.
C13_StaleResultApplied ==
  [][ /\ lastOp'.op # "geocodeDone" => IsPrefix(pending, pending')
      /\ lastOp'.op = "geocodeDone" =>
           \E k \in 1..Len(pending) :
             /\ pending' = RemoveAt(pending, k)
             /\ lastOp'.req = pending[k]
             /\ lastOp'.late = overtaken[k]
      /\ (lastOp'.op = "geocodeDone" /\ lastOp'.late
            /\ ValidCoordinateResult(lastOp'.resp) /\ lastOp'.req.map # NoMap) =>
           /\ selectedNeighborhoodIds # {}
           /\ selectedNeighborhoodIds' = {}
           /\ view' = FlyToView(ParseFloat(lastOp'.resp.results[1].lat).val,
                                ParseFloat(lastOp'.resp.results[1].lon).val) ]_vars

\* the result of an earlier search has just cleared a boundary that was
\* selected after that search was submitted, and moved the view
C13_Witness ==
  /\ lastOp.op = "geocodeDone"
  /\ lastOp.late
  /\ ValidCoordinateResult(lastOp.resp)
  /\ lastOp.req.map # NoMap
  /\ selectedNeighborhoodIds = {}
  /\ view = FlyToView(ParseFloat(lastOp.resp.results[1].lat).val,
                      ParseFloat(lastOp.resp.results[1].lon).val)

\* C14: whatever the order of the boundary load, layer clicks, checkbox
\* changes, searches, geocode completions, apply and clear, the selection
\* holds at most one boundary index, and it holds one only when the
\* boundary collection is loaded and the index is that of one of its
\* features (0 <= index < number of features).
C14_SelectionSingleAndValid ==
  /\ Cardinality(selectedNeighborhoodIds) <= 1
  /\ selectedNeighborhoodIds # {} =>
       /\ HasFC(neighborhoodsFC)
       /\ \A idx \in selectedNeighborhoodIds :
            0 <= idx /\ idx < Len(neighborhoodsFC.features)

\* the checkbox of the last of several boundaries has selected it while a
\* geocode request issued before that is still in flight
C14_Witness ==
  /\ lastOp.op = "checkbox"
  /\ HasFC(neighborhoodsFC)
  /\ Len(neighborhoodsFC.features) > 1
  /\ selectedNeighborhoodIds = {Len(neighborhoodsFC.features) - 1}
  /\ pending # <<>>
  /\ \E k \in 1..Len(overtaken) : overtaken[k]

====
